---- MODULE Spec2Model ----
(***************************************************************************)
(* nwload.py: the script interpreter (ACcmd / ACcommand / NetworkTester on *)
(* top of cmd.Cmd, shlex and argparse) and the data size converter         *)
(* (Conversions).                                                          *)
(*                                                                         *)
(* A Python str is a sequence of one-character strings, so that strip,     *)
(* the identifier scan of cmd.Cmd.parseline, shlex's tokenizer and         *)
(* argparse's option matching are computed character by character.         *)
(***************************************************************************)
EXTENDS Integers, Sequences, FiniteSets, TLC

\* ------------------------------------------------------------------ bounds
\* Number of lines a session reads before the input ends.
MaxLines == 3
\* The largest m of the converter's inputs m * 1024^k.
MaxMant == 8
\* The largest one-digit number among the digit strings given to datasize2int.
MaxLit == 3

\* ------------------------------------------------------------- characters
BS == "\\"
HASH == "#"
DQ == "\""
SQ == "'"
SP == " "
TAB == "\t"

\* str.strip / str.lstrip with no argument strip these.
Whitespace == {" ", "\t", "\n", "\r", "\f"}

Letters ==
  {"a","b","c","d","e","f","g","h","i","j","k","l","m",
   "n","o","p","q","r","s","t","u","v","w","x","y","z",
   "A","B","C","D","E","F","G","H","I","J","K","L","M",
   "N","O","P","Q","R","S","T","U","V","W","X","Y","Z"}

DigitChars == {"0","1","2","3","4","5","6","7","8","9"}

\* cmd.IDENTCHARS = string.ascii_letters + string.digits + '_'
identchars == Letters \cup DigitChars \cup {"_"}

\* ---------------------------------------------------------------- strings
SetMin(S) == CHOOSE x \in S : \A y \in S : x <= y
SetMax(S) == CHOOSE x \in S : \A y \in S : x >= y

\* s[i:] with a 1-based i.
From(s, i) == SubSeq(s, i, Len(s))

lstrip(s) ==
  LET keep == {i \in 1..Len(s) : s[i] \notin Whitespace}
  IN  IF keep = {} THEN <<>> ELSE From(s, SetMin(keep))

strip(s) ==
  LET keep == {i \in 1..Len(s) : s[i] \notin Whitespace}
  IN  IF keep = {} THEN <<>> ELSE SubSeq(s, SetMin(keep), SetMax(keep))

startswith(s, p) == Len(p) <= Len(s) /\ SubSeq(s, 1, Len(p)) = p

\* Index of the first occurrence of character c in s, 0 when absent.
find(s, c) ==
  LET at == {i \in 1..Len(s) : s[i] = c}
  IN  IF at = {} THEN 0 ELSE SetMin(at)

\* Words of the command language, as character sequences.
s_exit == <<"e","x","i","t">>
s_EOF == <<"E","O","F">>
s_server == <<"s","e","r","v","e","r">>
s_client == <<"c","l","i","e","n","t">>
s_help == <<"h","e","l","p">>
s_shell == <<"s","h","e","l","l">>

\* ============================================================== Conversions
\* A Python int is held as its sign and its decimal digits, most significant
\* first (the integers of the model are 32 bits wide, 1024^6 is wider).
DigitSeq == <<"0","1","2","3","4","5","6","7","8","9">>
chr(d) == DigitSeq[d + 1]
val(c) == CHOOSE d \in 0..9 : DigitSeq[d + 1] = c

\* Digits without leading zeros; zero is <<0>>.
norm(a) ==
  IF \A i \in 1..Len(a) : a[i] = 0 THEN <<0>>
  ELSE SubSeq(a, SetMin({i \in 1..Len(a) : a[i] # 0}), Len(a))

\* The digits of a small number, none for 0.
RECURSIVE small_digits(_)
small_digits(c) == IF c = 0 THEN <<>> ELSE small_digits(c \div 10) \o <<c % 10>>

\* a * m + carry for a small m: the digits d that stand where a's stood and
\* the carry c out of them, the right half of a first and the left half
\* with the carry out of the right.
RECURSIVE mul_digits(_, _, _)
mul_left(a, m, right) ==
  IF right.d = <<>> THEN mul_digits(a, m, right.c)
  ELSE [d |-> mul_digits(a, m, right.c).d \o right.d, c |-> mul_digits(a, m, right.c).c]

mul_digits(a, m, carry) ==
  IF a = <<>> THEN [d |-> <<>>, c |-> carry]
  ELSE IF Len(a) = 1 THEN [d |-> <<(a[1] * m + carry) % 10>>, c |-> (a[1] * m + carry) \div 10]
  ELSE mul_left(SubSeq(a, 1, Len(a) \div 2), m,
                mul_digits(SubSeq(a, Len(a) \div 2 + 1, Len(a)), m, carry))

\* a * m + carry for a small m.
mul_small(a, m, carry) == small_digits(mul_digits(a, m, carry).c) \o mul_digits(a, m, carry).d

times(a, m) == norm(mul_small(a, m, 0))

\* b^k for a small b.
RECURSIVE power(_, _)
power(b, k) == IF k = 0 THEN <<1>> ELSE times(power(b, k - 1), b)

\* The sum of the products a[i] * b[j+1-i] from i on: column j of a * b.
RECURSIVE column(_, _, _, _)
column(a, b, j, i) ==
  IF i > Len(a) \/ i > j THEN 0
  ELSE (IF j + 1 - i <= Len(b) THEN a[i] * b[j + 1 - i] ELSE 0) + column(a, b, j, i + 1)

\* a * b: the columns, then the carries.
product(a, b) ==
  norm(mul_small([j \in 1..(Len(a) + Len(b) - 1) |-> column(a, b, j, 1)], 1, 0))

\* a < b for normalised digit sequences.
lex_less(a, b) ==
  \E i \in 1..Len(a) : a[i] < b[i] /\ \A j \in 1..(i - 1) : a[j] = b[j]

less(a, b) == Len(a) < Len(b) \/ (Len(a) = Len(b) /\ lex_less(a, b))

\* Fraction digits without trailing zeros.
trim(f) ==
  IF \A i \in 1..Len(f) : f[i] = 0 THEN <<>>
  ELSE SubSeq(f, 1, SetMax({i \in 1..Len(f) : f[i] # 0}))

\* ------------------------------------------------------------ Python float
\* A float is m * 2^e with m an int of exactly 53 bits (or m = 0, e = 0);
\* the inputs stay far from the largest and the smallest float.
two52 == times(power(1024, 5), 4)
two53 == times(power(1024, 5), 8)

\* a + 1.
incr(a) == norm(mul_small(a, 1, 1))

\* floor(N / 10^f), and the f digits it leaves out.
drop_last(N, f) == IF Len(N) <= f THEN <<0>> ELSE SubSeq(N, 1, Len(N) - f)
last_digits(N, f) ==
  IF Len(N) >= f THEN SubSeq(N, Len(N) - f + 1, Len(N))
  ELSE [i \in 1..(f - Len(N)) |-> 0] \o N

\* Round to nearest, ties to even: the digits r left out are more than a
\* half, or a half with the kept number odd.
round_up(r, odd) ==
  /\ r # <<>>
  /\ \/ r[1] > 5
     \/ r[1] = 5 /\ (odd \/ \E i \in 2..Len(r) : r[i] # 0)

\* The 53 bits q with what was left out, r, rounded.
fl_round(q, r, e) ==
  IF ~round_up(r, q[Len(q)] % 2 = 1) THEN [m |-> q, e |-> e]
  ELSE IF incr(q) = two53 THEN [m |-> two52, e |-> e + 1]
  ELSE [m |-> incr(q), e |-> e]

\* N * c^k for c = 2 or 5, ten factors at a time.
RECURSIVE scale_by(_, _, _)
scale_by(N, c, k) ==
  IF k = 0 \/ N = <<0>> THEN N
  ELSE IF k >= 10 THEN scale_by(times(N, c^10), c, k - 10)
  ELSE times(N, c^k)

\* N / 10^f * 2^k, again as digits N and a number of decimals f: N times
\* 2^k, or, for k < 0, N times 5^-k with -k more decimals.
binary_shift(N, f, k) ==
  IF k >= 0 THEN [N |-> scale_by(N, 2, k), f |-> f]
  ELSE [N |-> scale_by(N, 5, 0 - k), f |-> f - k]

\* The least k that can bring a number with L digits before the point to
\* 53 bits: the number is below 10^L, its binary logarithm below 3.322 * L;
\* it is 10^(L-1) at least, so no more than five doublings are missing.
lowest_shift(L) == 52 - ((L * 3322) \div 1000 + 1)

doubled(s, j) == [N |-> times(s.N, 2^j), f |-> s.f]

has_53_bits(s) ==
  ~less(drop_last(s.N, s.f), two52) /\ less(drop_last(s.N, s.f), two53)

fl_round_shifted(s, e) == fl_round(drop_last(s.N, s.f), last_digits(s.N, s.f), e)

fl_doubled(s, e, j) == fl_round_shifted(doubled(s, j), e - j)

fl_shifted(s, e) == fl_doubled(s, e, CHOOSE j \in 0..5 : has_53_bits(doubled(s, j)))

\* The float nearest to N / 10^f * 2^e: N / 10^f shifted so that 53 bits
\* stand before the point, those rounded.
fl_scale(N, f, e) ==
  IF N = <<0>> THEN [m |-> <<0>>, e |-> 0]
  ELSE fl_shifted(binary_shift(N, f, lowest_shift(Len(N) - f)),
                  e - lowest_shift(Len(N) - f))

\* float(s) for s = int "." frac, and float(n) for an int n.
float_of(int, frac) == fl_scale(norm(int \o frac), Len(frac), 0)

\* x * y for floats.
fl_mul(x, y) == fl_scale(product(x.m, y.m), 0, x.e + y.e)

\* x / 2^k for a float x.
fl_div_pow2(x, k) == IF x.m = <<0>> THEN x ELSE [m |-> x.m, e |-> x.e - k]

\* The decimal expansion [int, frac] of a float.
expansion_shifted(s) == [int |-> drop_last(s.N, s.f), frac |-> last_digits(s.N, s.f)]
expansion(x) == expansion_shifted(binary_shift(x.m, 0, x.e))

\* int(x) for a float x >= 0.
fl_trunc(x) == expansion(x).int

\* ---- str(x) for a float x: repr, the shortest decimal that reads back as x
zeros(n) == [i \in 1..n |-> 0]

\* The number 0.D * 10^decpt as [int, frac], D a digit sequence.
decimal(D, decpt) ==
  IF decpt >= Len(D) THEN [int |-> D \o zeros(decpt - Len(D)), frac |-> <<>>]
  ELSE IF decpt > 0 THEN [int |-> SubSeq(D, 1, decpt), frac |-> SubSeq(D, decpt + 1, Len(D))]
  ELSE [int |-> <<0>>, frac |-> zeros(0 - decpt) \o D]

\* The significant digits S of an expansion and the place of its point:
\* the expansion is 0.S * 10^decpt.
significant(X) ==
  IF X.int # <<0>> THEN [S |-> X.int \o X.frac, decpt |-> Len(X.int)]
  ELSE [S |-> norm(X.frac), decpt |-> Len(norm(X.frac)) - Len(X.frac)]

\* 0.S * 10^decpt rounded to nd significant digits.
rounded_kept(kept, up, decpt) ==
  IF ~up THEN [S |-> kept, decpt |-> decpt]
  ELSE IF Len(incr(kept)) > Len(kept) THEN [S |-> SubSeq(incr(kept), 1, Len(kept)), decpt |-> decpt + 1]
  ELSE [S |-> incr(kept), decpt |-> decpt]

rounded(S, decpt, nd) ==
  IF Len(S) <= nd THEN [S |-> S, decpt |-> decpt]
  ELSE rounded_kept(SubSeq(S, 1, nd),
                    round_up(SubSeq(S, nd + 1, Len(S)), S[nd] % 2 = 1), decpt)

reads_back(c, x) == float_of(decimal(c.S, c.decpt).int, decimal(c.S, c.decpt).frac) = x

\* The rounding to the fewest digits that reads back as x; 17 digits always
\* do.
shortest_at(sig, at) ==
  IF at = {} THEN sig ELSE rounded(sig.S, sig.decpt, SetMin(at))
shortest(sig, x) ==
  shortest_at(sig, {nd \in 1..17 : nd < Len(sig.S)
                                     /\ reads_back(rounded(sig.S, sig.decpt, nd), x)})

chars_of(D) == [i \in 1..Len(D) |-> chr(D[i])]

\* The exponent of the 'e' notation: a sign and two digits at least.
exponent_chars(n) ==
  (IF n < 0 THEN <<"-">> ELSE <<"+">>)
    \o chars_of(IF (IF n < 0 THEN 0 - n ELSE n) < 10
                THEN <<0>> \o small_digits(IF n < 0 THEN 0 - n ELSE n)
                ELSE small_digits(IF n < 0 THEN 0 - n ELSE n))

\* The digits D (no trailing zeros) of 0.D * 10^decpt written as repr writes
\* them: with a point and at least one digit after it, or, from 1e16 on and
\* below 1e-4, with an exponent.
repr_digits(D, decpt) ==
  IF decpt > 16 \/ decpt < -3
  THEN <<chr(D[1])>> \o (IF Len(D) > 1 THEN <<".">> \o chars_of(Tail(D)) ELSE <<>>)
         \o <<"e">> \o exponent_chars(decpt - 1)
  ELSE chars_of(decimal(D, decpt).int) \o <<".">>
         \o (IF decimal(D, decpt).frac = <<>> THEN <<"0">> ELSE chars_of(decimal(D, decpt).frac))

repr_shortest(c) == repr_digits(IF trim(c.S) = <<>> THEN <<0>> ELSE trim(c.S), c.decpt)

\* str(x) for the float x, negated when neg.
str_float(neg, x) ==
  (IF neg THEN <<"-">> ELSE <<>>)
    \o (IF x.m = <<0>> THEN <<"0", ".", "0">>
        ELSE repr_shortest(shortest(significant(expansion(x)), x)))

\* Conversions._mult
unit_letters == <<"k", "m", "g", "t", "p", "e">>
unit_LETTERS == <<"K", "M", "G", "T", "P", "E">>

mult_keys ==
  UNION {{<<unit_letters[k]>>, <<unit_letters[k], "B">>,
          <<unit_LETTERS[k]>>, <<unit_LETTERS[k], "B">>,
          <<unit_LETTERS[k], "i", "B">>} : k \in 1..6}

\* Conversions._mult[u], for u in mult_keys.
_mult(u) ==
  LET k == CHOOSE j \in 1..6 : u[1] \in {unit_letters[j], unit_LETTERS[j]}
  IN  IF u[1] \in {unit_letters[j] : j \in 1..6} THEN power(1000, k) ELSE power(1024, k)

\* Conversions._div: rows (b, d, ds), with d = 1024^(row - 1) held as its
\* exponent and the None of the last row's b as <<>>.
iB(K) == <<K, "i", "B">>

_div ==
  << [b |-> _mult(iB("K")), d |-> 0, ds |-> <<"B">>],
     [b |-> _mult(iB("M")), d |-> 1, ds |-> iB("K")],
     [b |-> _mult(iB("G")), d |-> 2, ds |-> iB("M")],
     [b |-> _mult(iB("T")), d |-> 3, ds |-> iB("G")],
     [b |-> _mult(iB("P")), d |-> 4, ds |-> iB("T")],
     [b |-> _mult(iB("E")), d |-> 5, ds |-> iB("P")],
     [b |-> <<>>,           d |-> 6, ds |-> iB("E")] >>

\* The first row of _div with b None or v < b.
RECURSIVE div_row(_, _)
div_row(v, r) ==
  IF _div[r].b = <<>> \/ v.neg \/ less(v.mag, _div[r].b) THEN r ELSE div_row(v, r + 1)

\* int2datasize once the row is found: v/d is the float nearest to the
\* quotient, and d is a power of two.
int2datasize_row(v, row) ==
  str_float(v.neg, fl_div_pow2(float_of(v.mag, <<>>), 10 * row.d)) \o row.ds

\* int2datasize with a table that has lost its first row.
int2datasize_without_B(v) == int2datasize_row(v, _div[div_row(v, 2)])

\* Conversions.int2datasize(v), v = [neg, mag]: str(v/d) + ds.
int2datasize(v) == int2datasize_row(v, _div[div_row(v, 1)])

\* Conversions._spec: '^\s*(?P<digits>[0-9]+)(?P<frac>\.[0-9]*)?\s*(?P<spec>.*)\s*$'
regex_space == {" ", "\t", "\n", "\r", "\f"}

\* The first position from i on where s has no character of class C
\* (Len(s) + 1 when there is none).
skip(s, i, C) ==
  IF \A j \in i..Len(s) : s[j] \in C THEN Len(s) + 1
  ELSE SetMin({j \in i..Len(s) : s[j] \notin C})

NoMatch == [matched |-> FALSE, digits |-> <<>>, has_frac |-> FALSE, frac |-> <<>>, spec |-> <<>>]

\* The match from the digits on: they start at i and end before j.
spec_match_tail(s, i, j) ==
  LET hasf == j <= Len(s) /\ s[j] = "."
      k == IF hasf THEN skip(s, j + 1, DigitChars) ELSE j
      m == skip(s, k, regex_space)
      n == skip(s, m, {s[x] : x \in 1..Len(s)} \ {"\n"})
  IN  IF skip(s, n, regex_space) <= Len(s) THEN NoMatch
      ELSE [matched |-> TRUE, digits |-> SubSeq(s, i, j - 1), has_frac |-> hasf,
            frac |-> SubSeq(s, j + 1, k - 1), spec |-> SubSeq(s, m, n - 1)]

spec_match_digits(s, i) ==
  IF skip(s, i, DigitChars) = i THEN NoMatch
  ELSE spec_match_tail(s, i, skip(s, i, DigitChars))

\* cls._spec.match(s)
spec_match(s) == spec_match_digits(s, skip(s, 1, regex_space))

\* raise DataSizeError(s)
DataSizeError(s) ==
  [raised |-> TRUE, ds |-> s, type |-> "", neg |-> FALSE, int |-> <<>>, frac |-> <<>>]

Returned(type, int, frac) ==
  [raised |-> FALSE, ds |-> <<>>, type |-> type, neg |-> FALSE, int |-> int, frac |-> frac]

digits_of(s) == [i \in 1..Len(s) |-> val(s[i])]

\* int(i * cls._mult[ds]): an int times an int, or a float times the int
\* made a float, cut down to an int.
scaled(int, has_frac, frac, mult) ==
  IF has_frac THEN fl_trunc(fl_mul(float_of(int, frac), float_of(mult, <<>>)))
  ELSE product(int, mult)

\* return i, for the int or the float i.
Returned_number(int, has_frac, x) ==
  IF has_frac THEN Returned("float", expansion(x).int, trim(expansion(x).frac))
  ELSE Returned("int", int, <<>>)

\* datasize2int after a match m.
datasize2int_matched(s, m) ==
  IF ~m.matched THEN DataSizeError(s)
  ELSE IF m.spec = <<>>
  THEN Returned_number(norm(digits_of(m.digits)), m.has_frac,
                       float_of(digits_of(m.digits), digits_of(m.frac)))
  ELSE IF m.spec \in mult_keys
  THEN Returned("int", scaled(norm(digits_of(m.digits)), m.has_frac, digits_of(m.frac),
                              _mult(m.spec)), <<>>)
  ELSE DataSizeError(s)  \* KeyError, caught by the bare except

\* Conversions.datasize2int(s): the number returned or the DataSizeError
\* raised.
datasize2int(s) == datasize2int_matched(s, spec_match(s))


\* ------------------------------------------------------------------ state
VARIABLES
  cmdFile,        \* "sys.stdin" or "file": where commands are read from
  outFile,        \* "sys.stdout" or "file": ACcmd.outFile, cmd.Cmd.stdout
  use_rawinput,   \* cmd.Cmd.use_rawinput
  _prompt,        \* ACcmd._prompt
  prompt,         \* cmd.Cmd.prompt
  _cmd,           \* ACcmd._cmd: the pending continued command
  lastcmd,        \* cmd.Cmd.lastcmd
  pc,             \* "Idle" in cmdloop, "Exited" after it, "Aborted" by an exception
  status,         \* process exit status: -1 while running, then 0 or 1
  atEOF,          \* the input has signalled end-of-input
  nread,          \* lines read so far
  line,           \* the last line handed to precmd
  src,            \* "line": read from the input; "eof": cmdloop's 'EOF' at end-of-input
  run,            \* the raw lines read since the last completed command
  emitted,        \* what precmd returned for that line
  event,          \* what onecmd did with it
  wrote,          \* what that iteration wrote, in order: [stream, what, arg]
  before,         \* _cmd, lastcmd, prompt and emitted as that iteration found them
  hosts,          \* the Host objects made so far, as [name, addr]
  conv_pc,        \* the converter calls made: "none"; "start", "formatted",
                  \* "parsed"; "given", "read"
  conv_v,         \* the int handed to int2datasize
  conv_s,         \* the string it returned, or the string given to datasize2int
  conv_lit,       \* the parts the given string is made of
  conv_i          \* what datasize2int made of that string

cmd_vars == <<cmdFile, outFile, use_rawinput, _prompt, prompt, _cmd, lastcmd, pc,
              status, atEOF, nread, line, src, run, emitted, event, wrote, before,
              hosts>>

conv_vars == <<conv_pc, conv_v, conv_s, conv_lit, conv_i>>

vars == <<cmd_vars, conv_vars>>

\* ------------------------------------------------------- ACcmd line assembly
\* precmd that appends the continued line with its backslash left on.
precmd_keeps_marker(c, l) ==
  IF l = <<>> \/ l[Len(l)] # BS
  THEN LET res == c \o l
           lres == lstrip(res)
       IN  IF lres # <<>> /\ lres[1] = HASH
           THEN [ret |-> <<>>, _cmd |-> <<>>]
           ELSE [ret |-> res, _cmd |-> <<>>]
  ELSE [ret |-> <<>>, _cmd |-> c \o l]

\* precmd that returns for a comment before it has reset self._cmd.
precmd_comment_keeps_pending(c, l) ==
  IF l = <<>> \/ l[Len(l)] # BS
  THEN LET res == c \o l
           lres == lstrip(res)
       IN  IF lres # <<>> /\ lres[1] = HASH
           THEN [ret |-> <<>>, _cmd |-> c]
           ELSE [ret |-> res, _cmd |-> <<>>]
  ELSE [ret |-> <<>>, _cmd |-> c \o SubSeq(l, 1, Len(l) - 1)]

\* precmd without the comment test.
precmd_no_comment(c, l) ==
  IF l = <<>> \/ l[Len(l)] # BS
  THEN [ret |-> c \o l, _cmd |-> <<>>]
  ELSE [ret |-> <<>>, _cmd |-> c \o SubSeq(l, 1, Len(l) - 1)]

\* ACcmd.precmd(line) with self._cmd = c: the command to dispatch ('' for none)
\* and the new self._cmd.
precmd(c, l) ==
  IF l = <<>> \/ l[Len(l)] # BS
  THEN \* Command is finished here
       LET res == c \o l
           lres == lstrip(res)
       IN  IF lres # <<>> /\ lres[1] = HASH
           THEN [ret |-> <<>>, _cmd |-> <<>>]
           ELSE [ret |-> res, _cmd |-> <<>>]
  ELSE \* Continued command (ends with backslash)
       [ret |-> <<>>, _cmd |-> c \o SubSeq(l, 1, Len(l) - 1)]

\* postcmd that never shows the continuation prompt.
postcmd_one_prompt(raw, c, p0, p) == IF raw THEN p0 ELSE p

\* ACcmd.postcmd: the prompt for the next line, given the prompt so far.
postcmd(raw, c, p0, p) ==
  IF raw THEN (IF c = <<>> THEN p0 ELSE "____ ") ELSE p

\* ------------------------------------------------------------ cmd.Cmd.parseline
\* hasattr(self, 'do_shell')
has_do_shell == FALSE

\* Length of the longest prefix of s made of identchars.
RECURSIVE identlen(_, _)
identlen(s, i) ==
  IF i < Len(s) /\ s[i + 1] \in identchars THEN identlen(s, i + 1) ELSE i

\* parseline once the command word is known to end after i characters.
parseline_split(l2, i) ==
  [none |-> FALSE, cmd |-> SubSeq(l2, 1, i), arg |-> strip(From(l2, i + 1)),
   line |-> l2]

\* parseline on the stripped line l1.
parseline_stripped(l1) ==
  IF l1 = <<>> THEN [none |-> TRUE, cmd |-> <<>>, arg |-> <<>>, line |-> l1]
  ELSE IF l1[1] = "?"
  THEN parseline_split(s_help \o <<SP>> \o Tail(l1),
                       identlen(s_help \o <<SP>> \o Tail(l1), 0))
  ELSE IF l1[1] = "!"
  THEN IF has_do_shell
       THEN parseline_split(s_shell \o <<SP>> \o Tail(l1),
                            identlen(s_shell \o <<SP>> \o Tail(l1), 0))
       ELSE [none |-> TRUE, cmd |-> <<>>, arg |-> <<>>, line |-> l1]
  ELSE parseline_split(l1, identlen(l1, 0))

\* cmd.Cmd.parseline(line): [none, cmd, arg, line]; none is TRUE where
\* Python returns cmd = arg = None.
parseline(l0) == parseline_stripped(strip(l0))

\* ------------------------------------------------------------------ shlex.split
\* shlex.split(s): posix, whitespace_split, no commenters.
shlex_whitespace == {" ", "\t", "\r", "\n"}
shlex_quotes == {DQ, SQ}
shlex_escape == {BS}
shlex_escapedquotes == {DQ}

\* shlex.read_token run to the end of s from position i.  state is shlex's
\* state (" ", "a", a quote, the escape), esc its escapedstate, token and
\* quoted those of the token being read, acc the tokens read so far.
\* [ok, tokens]; ok is FALSE where shlex raises ValueError.
RECURSIVE shlex_scan(_, _, _, _, _, _, _)
shlex_scan(s, i, state, esc, token, quoted, acc) ==
  LET emit == IF token # <<>> \/ quoted THEN Append(acc, token) ELSE acc
  IN
  IF i > Len(s)
  THEN IF state \in shlex_quotes \/ state \in shlex_escape
       THEN [ok |-> FALSE, tokens |-> <<>>]  \* No closing quotation / No escaped character
       ELSE [ok |-> TRUE, tokens |-> emit]
  ELSE
  LET c == s[i] IN
  CASE state = " " ->
         IF c \in shlex_whitespace
         THEN shlex_scan(s, i + 1, " ", esc, <<>>, FALSE, acc)
         ELSE IF c \in shlex_escape
         THEN shlex_scan(s, i + 1, c, "a", token, quoted, acc)
         ELSE IF c \in shlex_quotes
         THEN shlex_scan(s, i + 1, c, esc, token, quoted, acc)
         ELSE shlex_scan(s, i + 1, "a", esc, <<c>>, quoted, acc)
    [] state \in shlex_quotes ->
         IF c = state
         THEN shlex_scan(s, i + 1, "a", esc, token, TRUE, acc)
         ELSE IF c \in shlex_escape /\ state \in shlex_escapedquotes
         THEN shlex_scan(s, i + 1, c, state, token, TRUE, acc)
         ELSE shlex_scan(s, i + 1, state, esc, Append(token, c), TRUE, acc)
    [] state \in shlex_escape ->
         LET t == IF esc \in shlex_quotes /\ c # state /\ c # esc
                  THEN Append(token, state) ELSE token
         IN  shlex_scan(s, i + 1, esc, esc, Append(t, c), quoted, acc)
    [] OTHER -> \* state = "a"
         IF c \in shlex_whitespace
         THEN shlex_scan(s, i + 1, " ", esc, <<>>, FALSE, emit)
         ELSE IF c \in shlex_quotes
         THEN shlex_scan(s, i + 1, c, esc, token, quoted, acc)
         ELSE IF c \in shlex_escape
         THEN shlex_scan(s, i + 1, c, "a", token, quoted, acc)
         ELSE shlex_scan(s, i + 1, "a", esc, Append(token, c), quoted, acc)

shlex_split(s) == shlex_scan(s, 1, " ", " ", <<>>, FALSE, <<>>)

\* ------------------------------------------------- argparse.ArgumentParser
\* The parser both do_server and do_client build: -h/--help (added by
\* ArgumentParser) and -n/--name with required=True, action='append'.
opt_h == <<"-","h">>
opt_help == <<"-","-","h","e","l","p">>
opt_n == <<"-","n">>
opt_name == <<"-","-","n","a","m","e">>
option_strings == {opt_h, opt_help, opt_n, opt_name}

\* parser._option_string_actions: "h" the help action, "n" the append
\* action, "none" for a string that is no option string.
action_of(o) ==
  IF o \in {opt_h, opt_help} THEN "h"
  ELSE IF o \in {opt_n, opt_name} THEN "n"
  ELSE "none"

\* What _parse_optional answers for one argument string: cls "A" a
\* positional, "O" an option (act "none": an unknown one), "amb" the
\* ambiguous-option error; has/explicit the explicit argument; short is
\* TRUE when the option string has a single dash.
Positional == [cls |-> "A", act |-> "none", has |-> FALSE, explicit |-> <<>>, short |-> FALSE]
Ambiguous == [cls |-> "amb", act |-> "none", has |-> FALSE, explicit |-> <<>>, short |-> FALSE]
UnknownOpt == [cls |-> "O", act |-> "none", has |-> FALSE, explicit |-> <<>>, short |-> FALSE]
Optional(o, h, e) ==
  [cls |-> "O", act |-> action_of(o), has |-> h, explicit |-> e, short |-> o[2] # "-"]

\* parser._negative_number_matcher: '^-\d+$|^-\d*\.\d+$'
negative_number(a) ==
  /\ Len(a) >= 2
  /\ a[1] = "-"
  /\ LET dot == find(a, ".")
     IN  IF dot = 0
         THEN \A i \in 2..Len(a) : a[i] \in DigitChars
         ELSE /\ dot < Len(a)
              /\ \A i \in 2..Len(a) : i # dot => a[i] \in DigitChars

\* ArgumentParser._get_option_tuples(a), for a of two characters or more
\* starting with a dash: the options a abbreviates.
get_option_tuples(a) ==
  LET eq   == find(a, "=")
      head == IF eq = 0 THEN a ELSE SubSeq(a, 1, eq - 1)
      rest == IF eq = 0 THEN <<>> ELSE From(a, eq + 1)
  IN  IF a[2] = "-"
      THEN {Optional(o, eq # 0, rest) : o \in {x \in option_strings : startswith(x, head)}}
      ELSE {Optional(o, TRUE, From(a, 3)) :
              o \in {x \in option_strings : x = SubSeq(a, 1, 2)}}
           \cup
           {Optional(o, FALSE, <<>>) :
              o \in {x \in option_strings : x # SubSeq(a, 1, 2) /\ startswith(x, a)}}

\* _parse_optional once a is known to be no option string and no lone
\* dash: eq is the place of its first '=', tuples the options it abbreviates.
parse_optional_long(a, eq, tuples) ==
  IF eq # 0 /\ SubSeq(a, 1, eq - 1) \in option_strings
  THEN Optional(SubSeq(a, 1, eq - 1), TRUE, From(a, eq + 1))
  ELSE IF Cardinality(tuples) > 1 THEN Ambiguous
  ELSE IF Cardinality(tuples) = 1 THEN CHOOSE x \in tuples : TRUE
  ELSE IF negative_number(a) THEN Positional
  ELSE IF \E i \in 1..Len(a) : a[i] = SP THEN Positional
  ELSE UnknownOpt

\* ArgumentParser._parse_optional(a)
parse_optional(a) ==
  IF a = <<>> THEN Positional
  ELSE IF a[1] # "-" THEN Positional
  ELSE IF a \in option_strings THEN Optional(a, FALSE, <<>>)
  ELSE IF Len(a) = 1 THEN Positional
  ELSE parse_optional_long(a, find(a, "="), get_option_tuples(a))

dashdash == <<"-","-">>

\* The classification parse_known_args makes of every argument string
\* before it consumes any: after a '--' all are positionals.
arg_classes(L) ==
  LET dd == {i \in 1..Len(L) : L[i] = dashdash}
      first == IF dd = {} THEN Len(L) + 1 ELSE SetMin(dd)
  IN  [i \in 1..Len(L) |->
         IF i < first THEN parse_optional(L[i]) ELSE Positional]

\* ArgumentParser._get_values for one explicit argument: a '--' is struck
\* out of the argument list, which leaves the empty list (held here as the
\* empty sequence).
get_values(explicit) == IF explicit = dashdash THEN <<>> ELSE explicit

ParseError == [kind |-> "error", name |-> <<>>]
ParseHelp == [kind |-> "help", name |-> <<>>]

\* consume_optional on the option at position i, then the rest of the
\* arguments.  names is namespace.name so far, extras whether an argument
\* was left over, helpSeen whether a -h precedes in the same -xyz cluster.
RECURSIVE consume(_, _, _, _, _, _, _, _, _)
consume(L, cls, i, act, has, explicit, names, extras, helpSeen) ==
  IF i > Len(L)
  THEN \* required actions, then parse_args's check of the leftovers
       IF names = <<>> \/ extras THEN ParseError
       ELSE [kind |-> "parsed", name |-> names]
  ELSE IF act = "none"
  THEN \* start of the argument at position i
       IF cls[i].cls = "O" /\ cls[i].act # "none"
       THEN consume(L, cls, i, cls[i].act, cls[i].has, cls[i].explicit,
                    names, extras, FALSE)
       ELSE consume(L, cls, i + 1, "none", FALSE, <<>>, names, TRUE, FALSE)
  ELSE IF act = "h"
  THEN IF ~has THEN ParseHelp
       ELSE IF cls[i].short /\ explicit # <<>> /\ action_of(<<"-", explicit[1]>>) # "none"
       THEN consume(L, cls, i, action_of(<<"-", explicit[1]>>), Len(explicit) > 1,
                    Tail(explicit), names, extras, TRUE)
       ELSE ParseError  \* ignored explicit argument
  ELSE \* act = "n"
       IF has
       THEN IF helpSeen THEN ParseHelp
            ELSE consume(L, cls, i + 1, "none", FALSE, <<>>,
                         Append(names, get_values(explicit)), extras, FALSE)
       ELSE IF i + 1 <= Len(L) /\ cls[i + 1].cls = "A" /\ L[i + 1] # dashdash
       THEN IF helpSeen THEN ParseHelp
            ELSE consume(L, cls, i + 2, "none", FALSE, <<>>,
                         Append(names, L[i + 1]), extras, FALSE)
       ELSE ParseError  \* expected one argument

\* parse_known_args after the classification cls of the argument strings.
parse_classified(L, cls) ==
  IF \E i \in 1..Len(L) : cls[i].cls = "amb" THEN ParseError
  ELSE consume(L, cls, 1, "none", FALSE, <<>>, <<>>, FALSE, FALSE)

\* parser.parse_args(L): [kind, name] with kind "parsed" (name the list
\* namespace.name), or "help" / "error", the two ways it raises SystemExit.
parse_args(L) == parse_classified(L, arg_classes(L))

\* ----------------------------------------------------------------- dispatch
NoEvent == [verb |-> "", outcome |-> "none", parsed |-> <<>>]

\* What a handler hands back to onecmd: stop is its return value, raised
\* whether an exception left it instead.
Result(stop, raised, ev, w) ==
  [stop |-> stop, raised |-> raised, event |-> ev, wrote |-> w]

\* cmd.Cmd.default(line): the unknown-command path.
default(l, out) ==
  Result(FALSE, FALSE, [verb |-> "", outcome |-> "unknown", parsed |-> <<>>],
         << [stream |-> out, what |-> "*** Unknown syntax: ", arg |-> <<l>>] >>)

\* ACcmd.do_exit, also bound as do_EOF.
do_exit(verb, cs) ==
  Result(TRUE, FALSE, [verb |-> verb, outcome |-> "stop", parsed |-> <<>>], <<>>)

\* ACcmd.help_exit, also bound as help_EOF: three print() calls.
help_exit ==
  << [stream |-> "sys.stdout", what |-> "usage: exit", arg |-> <<>>] >>

\* The handler with a name that each -n overwrites (action='store').
handler_overwrites(verb, parsed) ==
  Result(FALSE, FALSE,
         [verb |-> verb, outcome |-> "executed", parsed |-> <<parsed[Len(parsed)]>>],
         << [stream |-> "sys.stdout",
             what |-> IF verb = "server" THEN "Server" ELSE "Client",
             arg |-> <<parsed[Len(parsed)]>>] >>)

\* The body of NetworkTester.do_server / do_client with getParser False:
\* print('Server', parsed) / print('Client', parsed); returns None.
handler(verb, parsed) ==
  Result(FALSE, FALSE, [verb |-> verb, outcome |-> "executed", parsed |-> parsed],
         << [stream |-> "sys.stdout",
             what |-> IF verb = "server" THEN "Server" ELSE "Client",
             arg |-> parsed] >>)

\* wrapped_do without the except clause: SystemExit leaves the command and
\* the loop.
wrapped_do_try_uncaught(verb, a) ==
  IF a.kind = "parsed" THEN handler(verb, a.name)
  ELSE Result(FALSE, TRUE, [verb |-> verb, outcome |-> a.kind, parsed |-> <<>>],
              << [stream |-> IF a.kind = "help" THEN "sys.stdout" ELSE "sys.stderr",
                  what |-> IF a.kind = "help" THEN "format_help" ELSE "usage+error",
                  arg |-> <<>>] >>)

\* wrapped_do from the try on: a is what parser.parse_args(L) gave.
\* SystemExit is caught and the command returns None; otherwise f runs.
wrapped_do_try(verb, a) ==
  IF a.kind = "parsed" THEN handler(verb, a.name)
  ELSE Result(FALSE, FALSE, [verb |-> verb, outcome |-> a.kind, parsed |-> <<>>],
              << [stream |-> IF a.kind = "help" THEN "sys.stdout" ELSE "sys.stderr",
                  what |-> IF a.kind = "help" THEN "format_help" ELSE "usage+error",
                  arg |-> <<>>] >>)

\* wrapped_do after L = shlex.split(cs), which is outside the try: its
\* ValueError leaves wrapped_do.
wrapped_do_split(verb, L) ==
  IF ~L.ok
  THEN Result(FALSE, TRUE, [verb |-> verb, outcome |-> "ValueError", parsed |-> <<>>], <<>>)
  ELSE wrapped_do_try(verb, parse_args(L.tokens))

\* ACcommand.__call__.wrapped_do for the command named verb, on argument
\* string cs.  argparse prints its help on sys.stdout and its errors on
\* sys.stderr before it raises SystemExit.
wrapped_do(verb, cs) == wrapped_do_split(verb, shlex_split(cs))

\* The methods without `do_EOF = do_exit`.
do_attr_without_EOF(c) ==
  IF c = s_exit THEN "exit"
  ELSE IF c = s_server THEN "server"
  ELSE IF c = s_client THEN "client"
  ELSE IF c = s_help THEN "help"
  ELSE ""

\* getattr(self, 'do_' + cmd): the verb whose method is found, "" for
\* AttributeError.
do_attr(c) ==
  IF c = s_exit THEN "exit"
  ELSE IF c = s_EOF THEN "EOF"
  ELSE IF c = s_server THEN "server"
  ELSE IF c = s_client THEN "client"
  ELSE IF c = s_help THEN "help"
  ELSE ""

\* do_help for a topic whose do_ method is that of verb ("" for none).
do_help_topic(arg, verb, out) ==
  IF arg = <<>> THEN << [stream |-> out, what |-> "topics", arg |-> <<>>] >>
  ELSE IF verb \in {"exit", "EOF"} THEN help_exit
  ELSE IF verb \in {"server", "client", "help"}
  THEN << [stream |-> out, what |-> "__doc__", arg |-> <<arg>>] >>
  ELSE << [stream |-> out, what |-> "*** No help on ", arg |-> <<arg>>] >>

\* cmd.Cmd.do_help(arg): help_<arg>() if there is one, else the docstring
\* of do_<arg>, else the nohelp line; with no arg the list of topics.  All
\* but help_exit's print() go to self.stdout.
do_help(arg, out) ==
  Result(FALSE, FALSE, [verb |-> "help", outcome |-> "do_help", parsed |-> <<>>],
         do_help_topic(arg, do_attr(arg), out))

\* onecmd on a line that is not empty: default, or the method found for the
\* parsed line p, which verb names.
onecmd_method(p, verb, out) ==
  IF p.none \/ p.cmd = <<>> \/ verb = "" THEN default(p.line, out)
  ELSE IF verb \in {"exit", "EOF"} THEN do_exit(verb, p.arg)
  ELSE IF verb = "help" THEN do_help(p.arg, out)
  ELSE wrapped_do(verb, p.arg)

\* cmd.Cmd.emptyline repeats the last command: the method ACcmd overrides.
emptyline_repeats_lastcmd(lc, out) ==
  IF lc # <<>> THEN onecmd_method(parseline(lc), do_attr(parseline(lc).cmd), out)
  ELSE Result(FALSE, FALSE, [verb |-> "", outcome |-> "emptyline", parsed |-> <<>>], <<>>)

\* ACcmd.emptyline, with self.lastcmd = lc: does nothing and returns False.
emptyline(lc, out) ==
  Result(FALSE, FALSE, [verb |-> "", outcome |-> "emptyline", parsed |-> <<>>], <<>>)

\* onecmd's call for the parsed line p.
onecmd_call(p, verb, lc, out) ==
  IF p.line = <<>> THEN emptyline(lc, out) ELSE onecmd_method(p, verb, out)

\* onecmd's result r with the lastcmd it leaves: set before the method is
\* looked up, '' for the line 'EOF', untouched for an empty or '!' line.
onecmd_result(p, lc, r) ==
  [stop |-> r.stop, raised |-> r.raised, event |-> r.event, wrote |-> r.wrote,
   lastcmd |-> IF p.line = <<>> \/ p.none THEN lc
               ELSE IF p.line = s_EOF THEN <<>> ELSE p.line]

onecmd_parsed(p, lc, out) == onecmd_result(p, lc, onecmd_call(p, do_attr(p.cmd), lc, out))

\* cmd.Cmd.onecmd(line) with self.lastcmd = lc and self.stdout = out: the
\* handler's result and the new lastcmd.
onecmd(l, lc, out) == onecmd_parsed(parseline(l), lc, out)

\* ------------------------------------------------------------------ scripts
\* The lines a session may read.
l_empty == <<>>
l_exit == s_exit
l_exit_h == s_exit \o <<SP>> \o opt_h
l_EOF == s_EOF
l_EOF_x == s_EOF \o <<SP, "x">>
l_server_A == s_server \o <<SP>> \o opt_n \o <<SP, "A">>
l_server_AB == l_server_A \o <<SP>> \o opt_n \o <<SP, "B">>
l_client_B == s_client \o <<SP>> \o opt_name \o <<SP, "B">>
l_server_x == s_server \o <<SP, "-", "x">>
l_client == s_client
l_server_n == s_server \o <<SP>> \o opt_n
l_server_h == s_server \o <<SP>> \o opt_h
l_client_help == s_client \o <<SP>> \o opt_help
l_define == <<"d","e","f","i","n","e",SP,"h","o","s","t">>
l_define_A_X == l_define \o <<SP>> \o opt_name \o <<SP, "A", SP, "-","-","a","d","d","r","e","s","s", SP, "X">>
l_define_A_Y == l_define \o <<SP>> \o opt_name \o <<SP, "A", SP, "-","-","a","d","d","r","e","s","s", SP, "Y">>
l_comment == <<SP, SP, HASH, SP, "c">>
l_comment_bs == <<HASH, SP, "c", BS>>
l_server_bs == s_server \o <<SP, BS>>
l_server_n_bs == s_server \o <<SP>> \o opt_n \o <<SP, BS>>
l_server_quote == s_server \o <<SP>> \o opt_n \o <<SP, DQ, "A">>
l_server_glued == s_server \o opt_n \o <<SP, "A">>
l_help_server == s_help \o <<SP>> \o s_server
l_qmark_exit == <<"?">> \o s_exit
l_n_A == opt_n \o <<SP, "A">>

ScriptLines ==
  {l_empty, l_exit, l_exit_h, l_EOF, l_EOF_x, l_server_A, l_server_AB, l_client_B,
   l_server_x, l_client, l_server_n, l_server_h, l_client_help, l_define,
   l_define_A_X, l_define_A_Y,
   l_comment, l_comment_bs, l_server_bs, l_server_n_bs, l_server_quote,
   l_server_glued, l_help_server, l_qmark_exit, l_n_A}

\* ------------------------------------------------------------------ cmdloop
\* ACcmd.__init__ / NetworkTester.__init__, then main's t.cmdloop() about
\* to read its first line.
\* No string given to datasize2int.
NoLiteral == [pre |-> <<>>, digits |-> <<>>, frac |-> <<>>, unit |-> <<>>, post |-> <<>>]

Init ==
  /\ cmdFile \in {"sys.stdin", "file"}
  /\ outFile \in {"sys.stdout", "file"}
  /\ use_rawinput = (cmdFile = "sys.stdin")
  /\ _prompt = IF cmdFile # "sys.stdin" THEN "" ELSE "nwl: "
  /\ prompt = _prompt
  /\ _cmd = <<>>
  /\ lastcmd = <<>>
  /\ pc = "Idle"
  /\ status = -1
  /\ atEOF = FALSE
  /\ nread = 0
  /\ line = <<>>
  /\ src = "none"
  /\ run = <<>>
  /\ emitted = <<>>
  /\ event = NoEvent
  /\ wrote = <<>>
  /\ before = [_cmd |-> <<>>, lastcmd |-> <<>>, prompt |-> _prompt, emitted |-> <<>>]
  /\ hosts = {}
  /\ conv_pc = "none"
  /\ conv_v = [neg |-> FALSE, mag |-> <<0>>]
  /\ conv_s = <<>>
  /\ conv_lit = NoLiteral
  /\ conv_i = DataSizeError(<<>>)

continued(l) == l # <<>> /\ l[Len(l)] = BS

\* The end of an iteration: p is what precmd gave, r what onecmd gave.
Finish(l, s, p, r) ==
  /\ line' = l
  /\ src' = s
  /\ run' = IF run # <<>> /\ continued(run[Len(run)]) THEN Append(run, l) ELSE <<l>>
  /\ emitted' = p.ret
  /\ _cmd' = p._cmd
  /\ lastcmd' = r.lastcmd
  /\ event' = r.event
  /\ wrote' = r.wrote
  /\ before' = [_cmd |-> _cmd, lastcmd |-> lastcmd, prompt |-> prompt, emitted |-> emitted]
  /\ hosts' = hosts  \* no handler calls Host(name, addr)
  /\ UNCHANGED conv_vars
  /\ IF r.raised
     THEN /\ pc' = "Aborted"
          /\ status' = 1
          /\ prompt' = prompt
     ELSE /\ prompt' = postcmd(use_rawinput, p._cmd, _prompt, prompt)
          /\ pc' = IF r.stop THEN "Exited" ELSE "Idle"
          /\ status' = IF r.stop THEN 0 ELSE status
  /\ UNCHANGED <<cmdFile, outFile, use_rawinput, _prompt>>

Dispatch(l, s, p) == Finish(l, s, p, onecmd(p.ret, lastcmd, outFile))

\* One iteration of cmd.Cmd.cmdloop on line l: precmd, onecmd, postcmd.  An
\* exception leaves the loop and ends the process with a traceback (status
\* 1); a true stop ends the loop and main calls sys.exit(0).
Iterate(l, s) == Dispatch(l, s, precmd(_cmd, l))

\* cmdloop reads a line: input(self.prompt) or self.stdin.readline() with
\* the line end stripped.  A file that has ended stays ended; a terminal
\* may deliver lines after an end-of-file.
ReadLine(l) ==
  /\ pc = "Idle"
  /\ nread < MaxLines
  /\ ~atEOF \/ use_rawinput
  /\ nread' = nread + 1
  /\ atEOF' = atEOF
  /\ Iterate(l, "line")

\* cmdloop finds the input at its end (EOFError, or readline() returning
\* ''): the line is 'EOF'.
ReadEOF ==
  /\ pc = "Idle"
  /\ nread' = nread
  /\ atEOF' = TRUE
  /\ Iterate(s_EOF, "eof")

Next ==
  \/ \E l \in ScriptLines : ReadLine(l)
  \/ ReadEOF

Spec == Init /\ [][Next]_vars

\* ---------------------------------------------------------- the converter
\* The ints handed to int2datasize: m * 1024^k, one for every row of _div
\* and every m up to MaxMant.
ConvInputs ==
  {[neg |-> FALSE, mag |-> times(power(1024, k), m)] :
     k \in 0..(Len(_div) - 1), m \in 1..MaxMant}

\* a - 1, for a > 0.
decr(a) == norm([i \in 1..Len(a) |->
                  IF \A j \in (i + 1)..Len(a) : a[j] = 0 THEN (a[i] + 9) % 10 ELSE a[i]])

\* More ints for int2datasize: zero, the ints next to the thresholds of
\* _div, 1024^7, and negative ones.
EdgeInputs ==
  {[neg |-> FALSE, mag |-> <<0>>]}
    \cup {[neg |-> FALSE, mag |-> decr(power(1024, k))] : k \in 1..Len(_div)}
    \cup {[neg |-> FALSE, mag |-> incr(power(1024, k))] : k \in 1..Len(_div)}
    \cup {[neg |-> FALSE, mag |-> power(1024, Len(_div))]}
    \cup {[neg |-> TRUE, mag |-> times(power(1024, k), m)] : k \in {0, 1, 2, 6}, m \in {1, 5}}
    \cup {[neg |-> TRUE, mag |-> <<1, 0, 2, 3>>]}

\* The strings given to datasize2int: whitespace, digits, a fraction, a
\* unit, whitespace; any part may be missing.
LitDigits ==
  {<<>>, <<"0">>, <<"1", "0">>, <<"0", "1", "0">>, <<"1", "0", "2", "3">>}
    \cup {<<chr(n)>> : n \in 1..MaxLit}
LitUnits == mult_keys \cup {<<>>, <<"B">>, <<"k", "b">>, <<"K", "i", "b">>}

\* Every number with every unit and nothing around it, and a few of them
\* with whitespace before and after.
Literals ==
  [pre : {<<>>}, digits : LitDigits,
   frac : {<<>>, <<".">>, <<".", "5">>, <<".", "0", "0", "1">>},
   unit : LitUnits, post : {<<>>}]
    \cup [pre : {<<>>, <<" ">>}, digits : {<<>>, <<"1", "0">>}, frac : {<<>>, <<".", "5">>},
          unit : {<<>>, <<"K">>, <<"k", "b">>}, post : {<<>>, <<" ">>, <<"\n">>}]

literal(l) == l.pre \o l.digits \o l.frac \o l.unit \o l.post

InitConv ==
  /\ cmdFile = "sys.stdin"
  /\ outFile = "sys.stdout"
  /\ use_rawinput = TRUE
  /\ _prompt = "nwl: "
  /\ prompt = _prompt
  /\ _cmd = <<>>
  /\ lastcmd = <<>>
  /\ pc = "Idle"
  /\ status = -1
  /\ atEOF = FALSE
  /\ nread = 0
  /\ line = <<>>
  /\ src = "none"
  /\ run = <<>>
  /\ emitted = <<>>
  /\ event = NoEvent
  /\ wrote = <<>>
  /\ before = [_cmd |-> <<>>, lastcmd |-> <<>>, prompt |-> _prompt, emitted |-> <<>>]
  /\ hosts = {}
  /\ \/ /\ conv_pc = "start"
        /\ conv_v \in ConvInputs \cup EdgeInputs
        /\ conv_lit = NoLiteral
        /\ conv_s = <<>>
     \/ /\ conv_pc = "given"
        /\ conv_v = [neg |-> FALSE, mag |-> <<0>>]
        /\ conv_lit \in Literals
        /\ conv_s = literal(conv_lit)
  /\ conv_i = DataSizeError(<<>>)

\* s = Conversions.int2datasize(v)
Format ==
  /\ conv_pc = "start"
  /\ conv_s' = int2datasize(conv_v)
  /\ conv_pc' = "formatted"
  /\ UNCHANGED <<cmd_vars, conv_v, conv_lit, conv_i>>

\* i = Conversions.datasize2int(s)
Parse ==
  /\ conv_pc \in {"formatted", "given"}
  /\ conv_i' = datasize2int(conv_s)
  /\ conv_pc' = IF conv_pc = "formatted" THEN "parsed" ELSE "read"
  /\ UNCHANGED <<cmd_vars, conv_v, conv_s, conv_lit>>

NextConv == Format \/ Parse

SpecConv == InitConv /\ [][NextConv]_vars

\* ==================================================================== claims
\* The line l without its last character, the continuation marker.
unmark(l) == SubSeq(l, 1, Len(l) - 1)

\* The lines of r joined, the continuation marker of all but the last removed.
RECURSIVE joined(_)
joined(r) == IF Len(r) <= 1 THEN (IF r = <<>> THEN <<>> ELSE r[1])
             ELSE unmark(r[1]) \o joined(Tail(r))

\* s, after its leading whitespace, starts with the comment marker.
CommentText(s) == lstrip(s) # <<>> /\ lstrip(s)[1] = HASH

\* The iteration just made printed a handler's line.
HandlerRan == \E i \in 1..Len(wrote) : wrote[i].what \in {"Server", "Client"}

\* The verb cmd.Cmd finds in the command just dispatched, and its arguments.
DispatchedVerb == do_attr(parseline(emitted).cmd)
DispatchedArgs == shlex_split(parseline(emitted).arg)

\* ---- C1
\* C1 as stated: each line ending in a backslash yields no command, and the
\* line that ends a run of k >= 1 such lines yields the concatenation of
\* the k+1 lines with the k markers removed.
C1_Original ==
  src = "line" =>
    /\ continued(line) => emitted = <<>>
    /\ (~continued(line) /\ Len(run) >= 2) => emitted = joined(run)

\* C1 amended: as C1, except that a concatenation which, after its leading
\* whitespace, starts with '#' yields the empty command.
C1_LineAssembly ==
  src = "line" =>
    /\ continued(line) => emitted = <<>>
    /\ (~continued(line) /\ Len(run) >= 2) =>
         emitted = IF CommentText(joined(run)) THEN <<>> ELSE joined(run)

\* Two continued lines and a last one, assembled into one executed command.
C1_Witness ==
  /\ src = "line"
  /\ Len(run) = 3
  /\ ~continued(line)
  /\ emitted = joined(run)
  /\ event.outcome = "executed"

\* ---- C2
\* C2: when the input ends while _cmd is not empty, the buffered text is
\* dropped: it reaches no handler and not the unknown-command path, nothing
\* is written for it, and the session is not aborted.
C2_EOFDiscardsPending ==
  (src = "eof" /\ before._cmd # <<>>) =>
    /\ event.outcome \in {"stop", "emptyline"}
    /\ wrote = <<>>
    /\ pc # "Aborted"

\* ---- C3
\* C3: the loop is left only by do_exit returning True, for an exit command
\* or for the 'EOF' of end-of-input; no other command ends or aborts it.
C3_OnlyExitStops == pc # "Idle" => event.outcome = "stop"

\* ---- C4
\* Command e is a server or client command whose arguments the parser
\* rejects.
RejectedArgs(verb, L) ==
  verb \in {"server", "client"} /\ L.ok /\ parse_args(L.tokens).kind = "error"
RejectedLine(p) == RejectedArgs(do_attr(p.cmd), shlex_split(p.arg))
Rejected(e) == RejectedLine(parseline(e))

\* A valid command of the line set, with the names it gives.
ValidCommand(l) ==
  CASE l = l_server_A -> << <<"A">> >>
    [] l = l_server_AB -> << <<"A">>, <<"B">> >>
    [] l = l_client_B -> << <<"B">> >>
    [] OTHER -> <<>>

\* C4: a server or client command whose arguments the parser rejects runs no
\* handler body, leaves no pending text, neither stops nor aborts the loop,
\* and a valid command on the next line is dispatched and executed.
C4_ParseErrorRecoverable ==
  /\ (src # "none" /\ Rejected(emitted)) =>
       (~HandlerRan /\ event.parsed = <<>> /\ _cmd = <<>>
          /\ pc = "Idle" /\ status = -1)
  /\ (src = "line" /\ Rejected(before.emitted) /\ ValidCommand(line) # <<>>) =>
       (event.outcome = "executed" /\ HandlerRan
          /\ event.parsed = ValidCommand(line) /\ pc = "Idle")

\* A valid command run on the line after a rejected one.
C4_Witness ==
  /\ src = "line"
  /\ Rejected(before.emitted)
  /\ line = l_server_A
  /\ event = [verb |-> "server", outcome |-> "executed", parsed |-> << <<"A">> >>]

\* ---- C5
\* C5: an exit command, or the end of the input, takes the loop to Exited
\* with status 0, and no session ends any other way.
C5_ExitSucceeds ==
  /\ pc # "Aborted"
  /\ (src = "eof" \/ (src = "line" /\ DispatchedVerb = "exit")) =>
       (pc = "Exited" /\ status = 0)

\* ---- C6
\* C6: when a line completes a command whose assembled text _cmd + line
\* starts, after leading whitespace, with '#', the command emitted is empty,
\* no handler runs, the last command is not repeated, and nothing but the
\* pending text changes.
C6_CommentIsNoOp ==
  (src # "none" /\ ~continued(line) /\ CommentText(before._cmd \o line)) =>
    /\ emitted = <<>>
    /\ event = [verb |-> "", outcome |-> "emptyline", parsed |-> <<>>]
    /\ wrote = <<>>
    /\ _cmd = <<>>
    /\ lastcmd = before.lastcmd
    /\ pc = "Idle"
    /\ status = -1

\* A comment assembled from two lines, after a command that ran.
C6_Witness ==
  /\ src = "line"
  /\ Len(run) = 2
  /\ CommentText(joined(run))
  /\ event.outcome = "emptyline"
  /\ lastcmd = l_server_A

\* ---- C7
\* What C7 says of an iteration: no handler, nothing written, no pending
\* text, and the state the next lines meet is the state before.
Ignored ==
  /\ event = [verb |-> "", outcome |-> "emptyline", parsed |-> <<>>]
  /\ wrote = <<>>
  /\ _cmd = <<>>
  /\ lastcmd = before.lastcmd
  /\ prompt = before.prompt
  /\ pc = "Idle"
  /\ status = -1

\* C7 as stated: a line read while nothing is pending whose first
\* non-whitespace character is '#' is ignored, whatever follows the '#'.
C7_Original ==
  (src = "line" /\ before._cmd = <<>> /\ CommentText(line)) => Ignored

\* C7 amended: such a line is ignored provided it does not end in a
\* backslash.
C7_CommentLineIgnored ==
  (src = "line" /\ before._cmd = <<>> /\ CommentText(line) /\ ~continued(line))
    => Ignored

\* A comment line read with nothing pending, after a command that ran.
C7_Witness ==
  /\ src = "line"
  /\ before._cmd = <<>>
  /\ line = l_comment
  /\ event.outcome = "emptyline"
  /\ lastcmd = l_server_A

\* ---- C8
\* The command just dispatched is exit, server or client with -h or --help.
HelpAsked ==
  /\ src # "none"
  /\ DispatchedVerb \in {"exit", "server", "client"}
  /\ DispatchedArgs.ok
  /\ DispatchedArgs.tokens \in {<<opt_h>>, <<opt_help>>}

\* C8: exit, server or client with -h or --help writes the usage text to the
\* output sink, runs no handler action, and the session goes on.
C8_HelpIsNoOp ==
  HelpAsked =>
    /\ pc = "Idle"
    /\ status = -1
    /\ ~HandlerRan
    /\ \E i \in 1..Len(wrote) :
         wrote[i].stream = outFile /\ wrote[i].what \in {"format_help", "usage: exit"}

\* ---- C9
\* The first whitespace-delimited word of s.
FirstWord(s) ==
  LET w == strip(s)
      ends == {i \in 1..Len(w) : w[i] \in Whitespace}
  IN  IF ends = {} THEN w ELSE SubSeq(w, 1, SetMin(ends) - 1)

RegisteredVerbs == {s_exit, s_EOF, s_server, s_client, s_help}

\* C9: a command whose first word is no registered verb writes the
\* unknown-command line to the output sink, runs no handler, changes no
\* state, and the loop goes on.
C9_UnknownVerb ==
  (src # "none" /\ strip(emitted) # <<>> /\ FirstWord(emitted) \notin RegisteredVerbs) =>
    /\ event.outcome = "unknown"
    /\ wrote = << [stream |-> outFile, what |-> "*** Unknown syntax: ",
                   arg |-> <<strip(emitted)>>] >>
    /\ _cmd = <<>>
    /\ pc = "Idle"
    /\ status = -1

\* ---- C10
\* The digits of n as an int that datasize2int returned.
ReturnedInt(n) == ~conv_i.raised /\ conv_i.int = n.mag /\ conv_i.frac = <<>> /\ conv_i.neg = n.neg

Pow1024(n) == \E k \in 0..6 : n = [neg |-> FALSE, mag |-> power(1024, k)]

\* C10: for every n = 1024^k, k = 0..6, datasize2int(int2datasize(n))
\* returns n and raises no DataSizeError.
C10_RoundTrip == (conv_pc = "parsed" /\ Pow1024(conv_v)) => ReturnedInt(conv_v)

\* A literal of digits, an optional fraction and a unit of the table (or
\* none), nothing around it, has been read.
PlainLiteral ==
  /\ conv_pc = "read"
  /\ conv_lit.pre = <<>> /\ conv_lit.post = <<>>
  /\ conv_lit.digits # <<>>
  /\ conv_lit.unit \in mult_keys \cup {<<>>}

\* N * 1000^k is N with 3k zeros after it, N * 1024^k is N doubled 10k
\* times, k the place of the unit's first letter among k, m, g, t, p, e.
UnitPlace(u) == CHOOSE k \in 1..6 : u[1] \in {unit_letters[k], unit_LETTERS[k]}

TimesUnit(N, u) ==
  IF u = <<>> THEN N
  ELSE IF u[1] \in {unit_letters[k] : k \in 1..6} THEN norm(N \o zeros(3 * UnitPlace(u)))
  ELSE scale_by(N, 2, 10 * UnitPlace(u))

\* The integer literals of the claim alone: d * 1000^k, d * 1024^k or d.
IntegerLiteralValue ==
  (PlainLiteral /\ conv_lit.frac = <<>>) =>
    conv_i = Returned("int", TimesUnit(norm(digits_of(conv_lit.digits)), conv_lit.unit), <<>>)

\* C11: datasize2int of the integer literal d with unit u returns d for no
\* unit, d * 1000^k for the k-th lowercase prefix or its B form and
\* d * 1024^k for the k-th uppercase prefix, its B form or its IEC form; of a
\* fractional literal with a unit it returns the number times the
\* multiplier, truncated.
C11_ParsedValue ==
  PlainLiteral =>
    IF conv_lit.frac = <<>>
    THEN conv_i = Returned("int", TimesUnit(norm(digits_of(conv_lit.digits)), conv_lit.unit), <<>>)
    ELSE conv_lit.unit # <<>> =>
           conv_i = Returned("int",
                             drop_last(TimesUnit(norm(digits_of(conv_lit.digits \o Tail(conv_lit.frac))),
                                                 conv_lit.unit),
                                       Len(conv_lit.frac) - 1),
                             <<>>)

\* The place i, from 0, of the first unit of B, KiB, MiB, GiB, TiB, PiB, EiB
\* whose threshold 1024^(i+1) exceeds n, 6 when none does.
IecUnits ==
  << <<"B">>, <<"K","i","B">>, <<"M","i","B">>, <<"G","i","B">>, <<"T","i","B">>,
     <<"P","i","B">>, <<"E","i","B">> >>

UnitBelow(n) ==
  LET over == {i \in 0..5 : n.neg \/ less(n.mag, scale_by(<<1>>, 2, 10 * (i + 1)))}
  IN  IF over = {} THEN 6 ELSE SetMin(over)

\* The numeral that stands before the unit of s, read: its sign, and its
\* digits before and past the point with the exponent applied (none is
\* negative here).
NumeralChars == DigitChars \cup {".", "-", "+", "e"}
Numeral(s, unit) == SubSeq(s, 1, Len(s) - Len(unit))
Mantissa(t) == IF find(t, "e") = 0 THEN t ELSE SubSeq(t, 1, find(t, "e") - 1)
Unsigned(t) == IF t # <<>> /\ t[1] \in {"-", "+"} THEN Tail(t) ELSE t
IntDigits(t) == digits_of(IF find(t, ".") = 0 THEN t ELSE SubSeq(t, 1, find(t, ".") - 1))
FracDigits(t) == digits_of(IF find(t, ".") = 0 THEN <<>> ELSE SubSeq(t, find(t, ".") + 1, Len(t)))
SmallNumber(d) == IF Len(d) = 1 THEN d[1] ELSE 10 * d[1] + d[2]
ExponentOf(t) ==
  IF find(t, "e") = 0 THEN 0
  ELSE SmallNumber(digits_of(Unsigned(SubSeq(t, find(t, "e") + 1, Len(t)))))

ReadDigits(int, frac, e) ==
  IF e >= Len(frac) THEN float_of(int \o frac \o zeros(e - Len(frac)), <<>>)
  ELSE float_of(int \o SubSeq(frac, 1, e), SubSeq(frac, e + 1, Len(frac)))

ReadNumeral(t) ==
  ReadDigits(IntDigits(Unsigned(Mantissa(t))), FracDigits(Mantissa(t)), ExponentOf(t))

EndsWith(s, unit) ==
  /\ Len(s) > Len(unit)
  /\ SubSeq(s, Len(s) - Len(unit) + 1, Len(s)) = unit
  /\ \A i \in 1..(Len(s) - Len(unit)) : s[i] \in NumeralChars

\* C12: int2datasize(n) ends with the first unit of B, KiB, ..., EiB whose
\* threshold 1024^(i+1) exceeds n (EiB when none does; B for zero and for
\* every negative n), and what stands before the unit is n / 1024^i.
C12_UnitBoundaries ==
  conv_pc = "formatted" =>
    /\ EndsWith(conv_s, IecUnits[UnitBelow(conv_v) + 1])
    /\ (Numeral(conv_s, IecUnits[UnitBelow(conv_v) + 1])[1] = "-") = (conv_v.neg)
    /\ ReadNumeral(Numeral(conv_s, IecUnits[UnitBelow(conv_v) + 1]))
         = fl_div_pow2(float_of(conv_v.mag, <<>>), 10 * UnitBelow(conv_v))

\* 1073741823 = 1024^3 - 1 is formatted in MiB.
C12_Witness ==
  /\ conv_pc = "formatted"
  /\ conv_v = [neg |-> FALSE, mag |-> <<1,0,7,3,7,4,1,8,2,3>>]
  /\ conv_s = <<"1","0","2","3",".","9","9","9","9","9","9","0","4","6","3","2","5","7","M","i","B">>

\* C13: datasize2int returns a number or raises DataSizeError carrying the
\* literal it was given; it raises exactly when the literal has no leading
\* digits after the optional whitespace, or has a unit token that is not a
\* key of the multiplier table.
C13_ParseErrors ==
  conv_pc = "read" =>
    /\ conv_i.raised => conv_i = DataSizeError(conv_s)
    /\ ~conv_i.raised => conv_i.type \in {"int", "float"}
    /\ conv_i.raised <=> \/ conv_lit.digits = <<>>
                         \/ conv_lit.unit # <<>> /\ conv_lit.unit \notin mult_keys

\* Both raise, or both return the same number.
SameResult(a, b) == a.raised = b.raised /\ (~a.raised => a = b)

\* C17: for a literal L of digits, an optional fraction and a unit token,
\* datasize2int of L with whitespace added before or after it gives what
\* datasize2int(L) gives.
C17_WhitespaceAround ==
  (conv_pc = "read" /\ conv_lit.digits # <<>>) =>
    SameResult(conv_i, datasize2int(conv_lit.digits \o conv_lit.frac \o conv_lit.unit))

\* `define host --name A --address X` and then `define host --name A
\* --address Y` have been dispatched, one right after the other.
DefinedTwice ==
  /\ src = "line" /\ pc = "Idle"
  /\ before.emitted = l_define_A_X
  /\ emitted = l_define_A_Y

\* C14: after `define host --name A --address X` and then `define host
\* --name A --address Y`, the host mapping holds exactly one entry for A and
\* its address is Y.
C14_LastWriteWins ==
  DefinedTwice => {h \in hosts : h.name = <<"A">>} = {[name |-> <<"A">>, addr |-> <<"Y">>]}

\* C15: whenever precmd returns after a line that does not end in a
\* backslash, _cmd is empty, so _cmd is non-empty only right after a line
\* that ended in a backslash; and _cmd is what precmd left, whatever the
\* command did (a handler, a failed parse, an unknown command, an exception).
C15_PendingBuffer ==
  /\ src = "none" => _cmd = <<>>
  /\ (src # "none" /\ ~continued(line)) => _cmd = <<>>
  /\ _cmd # <<>> => (src = "line" /\ continued(line))
  /\ src # "none" => _cmd = precmd(before._cmd, line)._cmd

\* A continued command is completed and its handler runs.
C15_Witness ==
  /\ src = "line"
  /\ Len(run) = 2
  /\ before._cmd # <<>>
  /\ ~continued(line)
  /\ _cmd = <<>>
  /\ event.outcome = "executed"

\* C16: read from a script, the prompt is empty in every state; read from
\* the terminal, after each line processed the prompt is the continuation
\* prompt exactly when _cmd is non-empty and the primary prompt exactly when
\* it is empty.
C16_PromptState ==
  /\ cmdFile # "sys.stdin" => prompt = "" /\ before.prompt = ""
  /\ (cmdFile = "sys.stdin" /\ src # "none" /\ pc # "Aborted") =>
       /\ (prompt = "____ ") = (_cmd # <<>>)
       /\ (prompt = "nwl: ") = (_cmd = <<>>)

\* At the terminal, a line ending in a backslash has been read: the
\* continuation prompt is up.
C16_Witness ==
  /\ cmdFile = "sys.stdin"
  /\ src = "line"
  /\ continued(line)
  /\ _cmd # <<>>
  /\ prompt = "____ "
  /\ before.prompt = "nwl: "

\* The words of a command, one space between them.
RECURSIVE Words(_)
Words(s) ==
  IF find(s, SP) = 0 THEN <<s>>
  ELSE <<SubSeq(s, 1, find(s, SP) - 1)>> \o Words(From(s, find(s, SP) + 1))

IsName(w) == w # <<>> /\ \A i \in 1..Len(w) : w[i] \in Letters \cup DigitChars

\* server or client followed by any number of -n NAME or --name NAME.
RoleWords(w) ==
  /\ w[1] \in {s_server, s_client}
  /\ Len(w) % 2 = 1
  /\ \A i \in 1..(Len(w) \div 2) : w[2 * i] \in {opt_n, opt_name} /\ IsName(w[2 * i + 1])

RoleNames(w) == [i \in 1..(Len(w) \div 2) |-> w[2 * i + 1]]

RoleResult(w) ==
  IF Len(w) = 1
  THEN event.outcome = "error" /\ ~HandlerRan /\ pc = "Idle"
  ELSE /\ event = [verb |-> do_attr(w[1]), outcome |-> "executed", parsed |-> RoleNames(w)]
       /\ wrote = << [stream |-> "sys.stdout",
                      what |-> IF w[1] = s_server THEN "Server" ELSE "Client",
                      arg |-> RoleNames(w)] >>

\* C18: for server and client every -n NAME or --name NAME appends NAME to
\* the name list in order of occurrence (server -n A -n B gives [A, B]), a
\* command without any is refused and its handler does not run, and no host
\* entry is written.
C18_RoleFlagsCumulative ==
  (src # "none" /\ RoleWords(Words(emitted))) =>
    RoleResult(Words(emitted)) /\ hosts = {}

\* server -n A -n B has run with the names A and B, in that order.
C18_Witness ==
  /\ src = "line"
  /\ emitted = l_server_AB
  /\ event = [verb |-> "server", outcome |-> "executed", parsed |-> << <<"A">>, <<"B">> >>]

\* A line read with nothing pending, whose command has EOF as its first word.
EOFCommand ==
  /\ src = "line"
  /\ before._cmd = <<>>
  /\ FirstWord(emitted) = s_EOF

\* The session has ended as exit ends it.
EndedAsExit ==
  /\ pc = "Exited"
  /\ status = 0
  /\ event.outcome = "stop"
  /\ wrote = <<>>

\* C19: a line whose command has EOF as its first word, read while no
\* continuation is pending, ends the session as exit does, and after the
\* session has ended no line is read or dispatched.
C19_EOFIsExit == [](EOFCommand => EndedAsExit) /\ [][pc # "Exited"]_vars

C19_Witness ==
  /\ src = "line"
  /\ line = l_EOF_x
  /\ before._cmd = <<>>
  /\ nread < MaxLines
  /\ pc = "Exited"
  /\ status = 0

====
